---------------------------- MODULE Spec2Model ----------------------------
(***************************************************************************)
(* A model of the settlement engine's Intake & Deduplication Pipeline      *)
(* (services/intake_service.py) and of its Batch Optimization Engine       *)
(* (services/batching_service.py).                                         *)
(*                                                                         *)
(* Intake: every uvicorn worker process runs submit_transaction; one       *)
(* process executes it without interleaving (the coroutine never really    *)
(* suspends), but different processes interleave at each Redis and Kafka   *)
(* operation.  Redis and Kafka are shared by all workers.                  *)
(***************************************************************************)
EXTENDS Integers, Sequences, FiniteSets, TLC

(***************************************************************************)
(* Bounds of the model.                                                    *)
(***************************************************************************)
MaxCalls == 2          \* submit calls begun in one behaviour
MaxTime == 1           \* the clock runs 0..MaxTime
MaxInput == 3          \* transactions in one call of optimize_batch
MaxBatchSize == 2      \* the largest max_batch_size a service is made with
SimpleGroupingCap == 1 \* the 100 of _simple_grouping, scaled to these lists
MaxFaults == 1         \* failed Redis and Kafka operations, malformed entries
NumPartitions == 2     \* partitions of the topic

(***************************************************************************)
(* Time is counted in days, so the default dedup TTL of 86400 seconds is   *)
(* one unit.                                                               *)
(***************************************************************************)
DedupTtl == 1

\* Two of the worker processes uvicorn starts: the fewest that run submits
\* concurrently.
Workers == {"w1", "w2"}
Partitions == 0..(NumPartitions - 1)

(***************************************************************************)
(* Decimal amounts: whole units and hundredths, value = whole + cents/100. *)
(***************************************************************************)
Dec(w, c) == [whole |-> w, cents |-> c]
DecGT(a, b) == a.whole > b.whole \/ (a.whole = b.whole /\ a.cents > b.cents)
DecLE(a, b) == ~DecGT(a, b)
Zero == Dec(0, 0)
MaxAmount == Dec(999999999, 99)

(***************************************************************************)
(* Strings whose characters matter are sequences of one-character strings. *)
(***************************************************************************)
IsSpace(ch) == ch = " "

RECURSIVE LStrip(_)
LStrip(s) == IF s # <<>> /\ IsSpace(Head(s)) THEN LStrip(Tail(s)) ELSE s

RECURSIVE RStrip(_)
RStrip(s) ==
    IF s # <<>> /\ IsSpace(s[Len(s)]) THEN RStrip(SubSeq(s, 1, Len(s) - 1)) ELSE s

Strip(s) == RStrip(LStrip(s))

(***************************************************************************)
(* The requests submitted in the model.  The valid ones: two that share   *)
(* the transaction identifier under different idempotency keys and two     *)
(* that share the idempotency key under different transaction identifiers; *)
(* between them they vary the fields serialization and validation look at. *)
(* The invalid ones: one per validation rule and boundary.                 *)
(***************************************************************************)
TxnIds == {"t1", "t2"}
IdemKeys == {"k1", "k2"}

BaseRequest ==
    [transaction_id |-> "t1", amount |-> Dec(1000, 0),
     source_currency |-> "USD", destination_currency |-> "EUR",
     source_account |-> "acc_001", destination_account |-> "acc_002",
     counterparty_id |-> <<"b", "a">>, idempotency_key |-> "k1",
     settlement_window |-> "rtgs", metadata |-> "empty"]

ValidRequests ==
    {BaseRequest,
     [BaseRequest EXCEPT !.idempotency_key = "k2", !.metadata = "nonnative"],
     [BaseRequest EXCEPT !.transaction_id = "t2", !.amount = MaxAmount,
                         !.counterparty_id = <<" ", "b">>]}

InvalidRequests ==
    {[BaseRequest EXCEPT !.amount = a] :
        a \in {Zero, Dec(-100, 0), Dec(1000000000, 0)}}
    \cup {[BaseRequest EXCEPT !.destination_account = "acc_001"]}
    \cup {[BaseRequest EXCEPT !.counterparty_id = c] : c \in {<<>>, <<" ", " ">>}}

Requests == ValidRequests \cup InvalidRequests

NoReq == [none |-> "request"]
NoResp == [none |-> "response"]
NoCall == [none |-> "call"]

(***************************************************************************)
(* _validate_transaction: the first failing rule, or "ok".                 *)
(***************************************************************************)
\* A variant of the validation that lets a zero amount through.
ValidateTransaction_ZeroAllowed(t) ==
    IF DecGT(Zero, t.amount) THEN "Amount must be greater than 0"
    ELSE IF DecGT(t.amount, MaxAmount) THEN "Amount exceeds maximum limit"
    ELSE IF t.source_account = t.destination_account
         THEN "Source and destination accounts cannot be same"
    ELSE IF t.counterparty_id = <<>> \/ Strip(t.counterparty_id) = <<>>
         THEN "Counterparty ID is required"
    ELSE "ok"

ValidateTransaction(t) ==
    IF DecLE(t.amount, Zero) THEN "Amount must be greater than 0"
    ELSE IF DecGT(t.amount, MaxAmount) THEN "Amount exceeds maximum limit"
    ELSE IF t.source_account = t.destination_account
        THEN "Source and destination accounts cannot be same"
    ELSE IF t.counterparty_id = <<>> \/ Strip(t.counterparty_id) = <<>>
        THEN "Counterparty ID is required"
    ELSE "ok"

Valid(t) == ValidateTransaction(t) = "ok"

(***************************************************************************)
(* _generate_dedup_key: "dedup:" followed by the SHA-256 digest of the     *)
(* idempotency key.  The digest is a function of the key; distinct keys of *)
(* the model have distinct digests.                                        *)
(***************************************************************************)
Sha256Hex(s) == <<"sha256", s>>
GenerateDedupKey_NoPrefix(idempotency_key) == <<Sha256Hex(idempotency_key)>>
GenerateDedupKey(idempotency_key) == <<"dedup:", Sha256Hex(idempotency_key)>>

(***************************************************************************)
(* The response constructed by submit_transaction: the request's         *)
(* fields, status submitted, both timestamps read from the clock, and the  *)
(* optional fields unset.                                                  *)
(***************************************************************************)
NewResponse(r, t) ==
    [transaction_id |-> r.transaction_id, amount |-> r.amount,
     source_currency |-> r.source_currency,
     destination_currency |-> r.destination_currency,
     source_account |-> r.source_account,
     destination_account |-> r.destination_account,
     counterparty_id |-> r.counterparty_id,
     idempotency_key |-> r.idempotency_key,
     settlement_window |-> r.settlement_window, metadata |-> r.metadata,
     status |-> "submitted", batch_id |-> "None", settlement_time |-> "None",
     created_at |-> t, updated_at |-> t, fx_rate |-> "None",
     settlement_fee |-> "None"]

(***************************************************************************)
(* json.dumps(response.dict(), default=str): JSON has no decimal and no    *)
(* datetime, so these are written as strings (tagged "str" here); a        *)
(* metadata value JSON cannot encode is replaced by its string form.       *)
(* json.loads and the TransactionResponse constructor parse them back; a   *)
(* stringified metadata value stays a string.                              *)
(***************************************************************************)
Malformed == [json |-> "malformed"]

JsonMetadata(m) == IF m = "nonnative" THEN "stringified" ELSE m

Serialize(resp) ==
    [json |-> "object",
     transaction_id |-> resp.transaction_id,
     amount |-> <<"str", resp.amount>>,
     source_currency |-> resp.source_currency,
     destination_currency |-> resp.destination_currency,
     source_account |-> resp.source_account,
     destination_account |-> resp.destination_account,
     counterparty_id |-> resp.counterparty_id,
     idempotency_key |-> resp.idempotency_key,
     settlement_window |-> resp.settlement_window,
     metadata |-> JsonMetadata(resp.metadata),
     status |-> resp.status, batch_id |-> "null", settlement_time |-> "null",
     created_at |-> <<"str", resp.created_at>>,
     updated_at |-> <<"str", resp.updated_at>>,
     fx_rate |-> "null", settlement_fee |-> "null"]

\* A variant in which the response's constructor rejects every cached value.
Deserializable_Never(doc) == FALSE

Deserializable(doc) == doc.json = "object"

Deserialize(doc) ==
    [transaction_id |-> doc.transaction_id, amount |-> doc.amount[2],
     source_currency |-> doc.source_currency,
     destination_currency |-> doc.destination_currency,
     source_account |-> doc.source_account,
     destination_account |-> doc.destination_account,
     counterparty_id |-> doc.counterparty_id,
     idempotency_key |-> doc.idempotency_key,
     settlement_window |-> doc.settlement_window, metadata |-> doc.metadata,
     status |-> doc.status, batch_id |-> "None", settlement_time |-> "None",
     created_at |-> doc.created_at[2], updated_at |-> doc.updated_at[2],
     fx_rate |-> "None", settlement_fee |-> "None"]

(***************************************************************************)
(* The partition of a keyed record: a hash of the key modulo the number of *)
(* partitions.  A record without a key may go to any partition.            *)
(***************************************************************************)
KeyHash(k) ==
    CASE k = "t1" -> 1
      [] k = "t2" -> 2
      [] k = "k1" -> 2
      [] k = "k2" -> 3
      [] OTHER -> 0

PartitionsOf(key) ==
    IF key = "None" THEN Partitions ELSE {KeyHash(key) % NumPartitions}


(***************************************************************************)
(* The intake pipeline's exception policy.                                 *)
(*   - an exception while deserializing the cached value is caught in      *)
(*     _check_duplicate, which then returns None: a cache miss;            *)
(*   - an exception of setex is caught in _store_idempotency_key, logged   *)
(*     and not raised;                                                     *)
(*   - an exception of the publish is logged and raised again.             *)
(* redis.get in _check_duplicate is outside the try block, so an exception *)
(* of the Redis client there leaves submit_transaction.                    *)
(***************************************************************************)
\* Variants of the policy: each exception handled the other way.
DeserializeErrorRaises_Raised == TRUE
StoreErrorRaises_Raised == TRUE
PublishErrorRaises_Swallowed == FALSE

DeserializeErrorRaises == FALSE
StoreErrorRaises == FALSE
PublishErrorRaises == TRUE

IntakeTopic == "transactions.intake"

\* A variant that keys the record by the idempotency key.
PartitionKey_Idempotency(transaction) == transaction.idempotency_key

PartitionKey(transaction) == transaction.transaction_id

VARIABLES
    now,        \* the clock Redis expires entries by, in days
    utcnow,     \* the clock responses are stamped from: no two read alike
    store,      \* Redis: a function from the keys set to [val, at, ttl]
    log,        \* Kafka: partition -> sequence of the records appended
    pc,         \* worker -> "idle", "check", "store", "publish"
    req,        \* worker -> the request of the call it is running
    resp,       \* worker -> the response the call constructed
    seen,       \* worker -> what the call's duplicate lookup found
    wrote,      \* worker -> whether the call's store write succeeded
    ops,        \* worker -> store reads, store writes and sends of the call
    pred,       \* worker -> the call its call immediately follows, if any
    last,       \* the call the last step completed, with its outcome
    accepted,   \* idempotency key -> calls that returned isDuplicate = false
    calls,      \* submit calls begun
    faults      \* failed operations and malformed entries so far

intakeVars == <<now, utcnow, store, log, pc, req, resp, seen, wrote, ops, pred, last,
                accepted, calls, faults>>

VARIABLES
    bpc,                    \* "new", "idle", "running", "returned", "raised"
    max_batch_size,         \* the service's maximum batch size
    transactions,           \* the list a call of optimize_batch was given
    liquidity_constraints,  \* the constraints it was given
    chunks,                 \* the chunks still to solve, each with its window
    results,                \* all_batches: the results made so far
    solved,                 \* what the solver did with each chunk solved
    second                  \* datetime.utcnow().timestamp(), in whole seconds

batchVars == <<bpc, max_batch_size, transactions, liquidity_constraints, chunks,
               results, solved, second>>

VARIABLES
    reply                   \* what the last GET of a transaction was answered

apiVars == <<reply>>

NoOps == [reads |-> 0, writes |-> 0, sends |-> 0]
NoValue == [json |-> "None"]

(***************************************************************************)
(* Redis.  setex(key, ttl, value) sets the value and its time to live; get *)
(* returns the value until the time to live has elapsed, None after.       *)
(***************************************************************************)
Live(k) == k \in DOMAIN store /\ now < store[k].at + store[k].ttl

RedisGet(k) == IF Live(k) THEN store[k].val ELSE NoValue

\* A variant in which a get of a live entry extends its time to live.
StoreAfterGet_Extended(k) ==
    IF Live(k) THEN [store EXCEPT ![k].ttl = @ + 1] ELSE store

\* get reads: the entries, their values and their times to live stay.
StoreAfterGet(k) == store

\* A variant that sets the value with no expiry inside the time modelled.
RedisSetex_NoExpiry(k, ttl, v) ==
    [x \in DOMAIN store \cup {k} |->
        IF x = k THEN [val |-> v, at |-> now, ttl |-> MaxTime + 1] ELSE store[x]]

RedisSetex(k, ttl, v) ==
    [x \in DOMAIN store \cup {k} |->
        IF x = k THEN [val |-> v, at |-> now, ttl |-> ttl] ELSE store[x]]

IntakeInit ==
    /\ now = 0
    /\ utcnow = 0
    /\ store = [k \in {} |-> NoValue]
    /\ log = [p \in Partitions |-> <<>>]
    /\ pc = [w \in Workers |-> "idle"]
    /\ req = [w \in Workers |-> NoReq]
    /\ resp = [w \in Workers |-> NoResp]
    /\ seen = [w \in Workers |-> "none"]
    /\ wrote = [w \in Workers |-> "none"]
    /\ ops = [w \in Workers |-> NoOps]
    /\ pred = [w \in Workers |-> NoCall]
    /\ last = NoCall
    /\ accepted = [k \in IdemKeys |-> 0]
    /\ calls = 0
    /\ faults = 0

InFlight(w) == pc[w] # "idle"
Others(w) == Workers \ {w}

\* A Redis or Kafka operation fails, or a foreign writer acts.
Fault == faults < MaxFaults /\ faults' = faults + 1

\* What a call gives its caller: an exception, or (response, isDuplicate).
Raised(kind) == [kind |-> kind, resp |-> NoResp, dup |-> FALSE]
Returned(r, d) == [kind |-> "ok", resp |-> r, dup |-> d]

\* The record of a completed call: its request, what the caller got, the
\* response it constructed, and what its steps met.
Completed(r, out, made, sn, wr, pub, op, pr) ==
    [req |-> r, ret |-> out, made |-> made, seen |-> sn, wrote |-> wr,
     pub |-> pub, ops |-> op, pred |-> pr]

\* What a later call remembers of the completed call it follows.
Summary(c) ==
    IF c = NoCall THEN NoCall
    ELSE [idem |-> c.req.idempotency_key, ret |-> c.ret, made |-> c.made,
          wrote |-> c.wrote, pub |-> c.pub]

\* A step of the environment or the start of another call: the calls in
\* flight no longer immediately follow the call completed before them.
Disturbed == [w \in Workers |-> NoCall]

\* The worker is free again.
Idle(w) ==
    /\ pc' = [pc EXCEPT ![w] = "idle"]
    /\ req' = [req EXCEPT ![w] = NoReq]
    /\ resp' = [resp EXCEPT ![w] = NoResp]
    /\ seen' = [seen EXCEPT ![w] = "none"]
    /\ wrote' = [wrote EXCEPT ![w] = "none"]
    /\ ops' = [ops EXCEPT ![w] = NoOps]
    /\ pred' = [pred EXCEPT ![w] = NoCall]

\* The call of worker w ends with outcome out.
Finish(w, out, sn, wr, pub, op) ==
    /\ last' = Completed(req[w], out, resp[w], sn, wr, pub, op, pred[w])
    /\ accepted' = IF out.kind = "ok" /\ ~out.dup
                   THEN [accepted EXCEPT ![req[w].idempotency_key] = @ + 1]
                   ELSE accepted
    /\ Idle(w)

\* The call of worker w goes on to its next step.
Continue(w, step) ==
    /\ pc' = [pc EXCEPT ![w] = step]
    /\ last' = NoCall
    /\ UNCHANGED <<req, pred, accepted>>

(***************************************************************************)
(* submit_transaction, first step: a worker takes a request and validates  *)
(* it.  A request that fails validation raises ValueError at once.         *)
(***************************************************************************)
SubmitTransaction(w, r) ==
    /\ pc[w] = "idle"
    /\ calls < MaxCalls
    /\ calls' = calls + 1
    /\ IF Valid(r)
       THEN /\ pc' = [pc EXCEPT ![w] = "check"]
            /\ req' = [req EXCEPT ![w] = r]
            /\ pred' = [Disturbed EXCEPT
                          ![w] = IF \A v \in Others(w) : ~InFlight(v)
                                 THEN Summary(last) ELSE NoCall]
            /\ last' = NoCall
       ELSE /\ last' = Completed(r, Raised("validation_error"), NoResp, "none",
                                 "none", "none", NoOps, NoCall)
            /\ pred' = Disturbed
            /\ UNCHANGED <<pc, req>>
    /\ UNCHANGED <<now, utcnow, store, log, resp, seen, wrote, ops, accepted, faults>>
    /\ UNCHANGED <<batchVars, apiVars>>

(***************************************************************************)
(* _check_duplicate and the branch on its result.  redis.get raises; or it *)
(* returns a value that deserializes, which is returned as a duplicate; or *)
(* it returns a value that does not deserialize; or it returns None.  On a *)
(* miss the response is constructed.                                       *)
(***************************************************************************)
CheckDuplicate(w) ==
    LET k == GenerateDedupKey(req[w].idempotency_key)
        cached_value == RedisGet(k)
        found == IF cached_value = NoValue
                 THEN (IF k \in DOMAIN store THEN "expired" ELSE "absent")
                 ELSE IF Deserializable(cached_value) THEN "live" ELSE "corrupt"
        op == [ops[w] EXCEPT !.reads = @ + 1]
    IN
    /\ pc[w] = "check"
    /\ \/ /\ Fault
          /\ Finish(w, Raised("store_error"), "error", "none", "none", op)
          /\ UNCHANGED <<utcnow, resp>>
       \/ /\ found = "live"
          /\ Finish(w, Returned(Deserialize(cached_value), TRUE), "live", "none",
                    "none", op)
          /\ UNCHANGED <<utcnow, resp, faults>>
       \/ /\ found = "corrupt" /\ DeserializeErrorRaises
          /\ Finish(w, Raised("deserialize_error"), "corrupt", "none", "none", op)
          /\ UNCHANGED <<utcnow, resp, faults>>
       \/ /\ found \in {"absent", "expired"}
                \/ (found = "corrupt" /\ ~DeserializeErrorRaises)
          /\ resp' = [resp EXCEPT ![w] = NewResponse(req[w], utcnow + 1)]
          /\ utcnow' = utcnow + 1
          /\ seen' = [seen EXCEPT ![w] = found]
          /\ ops' = [ops EXCEPT ![w] = op]
          /\ Continue(w, "store")
          /\ UNCHANGED <<wrote, faults>>
    /\ store' = StoreAfterGet(k)
    /\ UNCHANGED <<now, log, calls>>
    /\ UNCHANGED <<batchVars, apiVars>>

(***************************************************************************)
(* _store_idempotency_key: setex of the serialized response with the TTL;  *)
(* or an exception of the Redis client.                                    *)
(***************************************************************************)
StoreIdempotencyKey(w) ==
    LET k == GenerateDedupKey(req[w].idempotency_key)
        op == [ops[w] EXCEPT !.writes = @ + 1]
    IN
    /\ pc[w] = "store"
    /\ \/ /\ store' = RedisSetex(k, DedupTtl, Serialize(resp[w]))
          /\ wrote' = [wrote EXCEPT ![w] = "ok"]
          /\ ops' = [ops EXCEPT ![w] = op]
          /\ Continue(w, "publish")
          /\ UNCHANGED <<resp, seen, faults>>
       \/ /\ Fault
          /\ UNCHANGED store
          /\ IF StoreErrorRaises
             THEN Finish(w, Raised("store_error"), seen[w], "failed", "none", op)
             ELSE /\ wrote' = [wrote EXCEPT ![w] = "failed"]
                  /\ ops' = [ops EXCEPT ![w] = op]
                  /\ Continue(w, "publish")
                  /\ UNCHANGED <<resp, seen>>
    /\ UNCHANGED <<now, utcnow, log, calls>>
    /\ UNCHANGED <<batchVars, apiVars>>

(***************************************************************************)
(* _publish_to_kafka and the end of submit_transaction: one producer.send  *)
(* to the topic with the partition key, then a bounded wait for the        *)
(* acknowledgment.  The broker appends the record and acknowledges; or the *)
(* send fails; or the wait times out although the broker appended the      *)
(* record.                                                                 *)
(***************************************************************************)
ProducerRecord(w) ==
    [topic |-> IntakeTopic, key |-> PartitionKey(resp[w]),
     value |-> Serialize(resp[w])]

\* A variant that returns the response whatever became of the publish.
AfterPublish_Always(w, outcome) == Returned(resp[w], FALSE)

AfterPublish(w, outcome) ==
    IF outcome = "ack" \/ ~PublishErrorRaises
    THEN Returned(resp[w], FALSE)
    ELSE Raised("publish_error")

PublishToKafka(w) ==
    LET op == [ops[w] EXCEPT !.sends = @ + 1] IN
    /\ pc[w] = "publish"
    /\ \E p \in PartitionsOf(ProducerRecord(w).key) :
        \/ /\ log' = [log EXCEPT ![p] = Append(@, ProducerRecord(w))]
           /\ Finish(w, AfterPublish(w, "ack"), seen[w], wrote[w], "ack", op)
           /\ UNCHANGED faults
        \/ /\ Fault
           /\ UNCHANGED log
           /\ Finish(w, AfterPublish(w, "failed"), seen[w], wrote[w], "failed", op)
        \/ /\ Fault
           /\ log' = [log EXCEPT ![p] = Append(@, ProducerRecord(w))]
           /\ Finish(w, AfterPublish(w, "timeout"), seen[w], wrote[w], "timeout", op)
    /\ UNCHANGED <<now, utcnow, store, calls>>
    /\ UNCHANGED <<batchVars, apiVars>>

(***************************************************************************)
(* The environment: time passes, and a writer other than this service      *)
(* leaves a value under a dedup key that does not deserialize.             *)
(***************************************************************************)
Tick ==
    /\ now < MaxTime
    /\ now' = now + 1
    /\ pred' = Disturbed
    /\ last' = NoCall
    /\ UNCHANGED <<utcnow, store, log, pc, req, resp, seen, wrote, ops, accepted,
                   calls, faults>>
    /\ UNCHANGED <<batchVars, apiVars>>

CorruptEntry(k) ==
    /\ Fault
    /\ Live(k)
    /\ store[k].val # Malformed
    /\ store' = [store EXCEPT ![k].val = Malformed]
    /\ pred' = Disturbed
    /\ last' = NoCall
    /\ UNCHANGED <<now, utcnow, log, pc, req, resp, seen, wrote, ops, accepted,
                   calls>>
    /\ UNCHANGED <<batchVars, apiVars>>

IntakeNext ==
    \/ \E w \in Workers : \E r \in Requests : SubmitTransaction(w, r)
    \/ \E w \in Workers : CheckDuplicate(w)
    \/ \E w \in Workers : StoreIdempotencyKey(w)
    \/ \E w \in Workers : PublishToKafka(w)
    \/ Tick
    \/ \E k \in DOMAIN store : CorruptEntry(k)

(***************************************************************************)
(*                       The batch optimization engine                     *)
(*                                                                         *)
(* Costs are integers in units of 10^-7 USD: an amount in cents times a    *)
(* spread in tenths of a basis point.                                      *)
(***************************************************************************)
Cents(a) == a.whole * 100 + a.cents

\* FX_SPREADS, in tenths of a basis point, and the default of 5 bp.
FxSpreads(src_curr, dst_curr) ==
    CASE <<src_curr, dst_curr>> \in {<<"USD", "EUR">>, <<"EUR", "USD">>} -> 25
      [] <<src_curr, dst_curr>> \in {<<"USD", "GBP">>, <<"GBP", "USD">>} -> 30
      [] <<src_curr, dst_curr>> \in {<<"USD", "JPY">>, <<"JPY", "USD">>} -> 20
      [] <<src_curr, dst_curr>> \in {<<"EUR", "GBP">>, <<"GBP", "EUR">>} -> 20
      [] OTHER -> 50

WireCost == 50000000
ConsolidationDiscountPct == 15

CalculateFxCost(src_curr, dst_curr, amount) ==
    Cents(amount) * FxSpreads(src_curr, dst_curr)

\* A variant that adds the discount to the wire cost.
DiscountedWireCost_Added ==
    (WireCost \div 100) * (100 + ConsolidationDiscountPct)

DiscountedWireCost == (WireCost \div 100) * (100 - ConsolidationDiscountPct)

\* The transactions handed to the optimizer: the two of the USD to EUR
\* scenario, the second without a settlement window, and one of another
\* window and a pair outside the spread table.
BatchTxn(id, amt, src, dst, win, cp) ==
    [transaction_id |-> id, amount |-> amt, source_currency |-> src,
     destination_currency |-> dst, settlement_window |-> win,
     counterparty_id |-> cp]

BatchPool ==
    {BatchTxn("A", Dec(1000, 0), "USD", "EUR", "rtgs", "bank_a"),
     BatchTxn("B", Dec(2000, 0), "USD", "EUR", "None", "zeta_bank"),
     BatchTxn("C", Dec(1500, 50), "GBP", "JPY", "t1", "bank_a")}

\* The counterparty identifiers that compare greater than 'self' as strings.
AfterSelf == {"zeta_bank"}

RECURSIVE SeqsUpTo(_, _)
SeqsUpTo(S, n) ==
    IF n = 0 THEN {<<>>}
    ELSE LET shorter == SeqsUpTo(S, n - 1)
         IN  shorter \cup {Append(q, x) : q \in shorter, x \in S}

BatchInputs == SeqsUpTo(BatchPool, MaxInput)

\* liquidity_constraints: None, an empty dict, or a limit on USD outflow
\* that A and B together exceed.
NoConstraints == [none |-> "constraints"]
EmptyConstraints == [c \in {} |-> Zero]
LiquidityChoices == {NoConstraints, EmptyConstraints, [c \in {"USD"} |-> Dec(2500, 0)]}

\* The 8 hexadecimal digits of a uuid4 that end a batch id.
UuidHex == {"0a1b2c3d", "4e5f6a7b"}

NoResult == [none |-> "result"]

BatchInit ==
    /\ bpc = "new"
    /\ max_batch_size = 0        \* no service is constructed yet
    /\ transactions = <<>>
    /\ liquidity_constraints = NoConstraints
    /\ chunks = <<>>
    /\ results = <<>>
    /\ solved = <<>>
    /\ second = 0

\* txn.settlement_window or SettlementWindow.RTGS
WindowOf(txn) ==
    IF txn.settlement_window = "None" THEN "rtgs" ELSE txn.settlement_window

\* The keys of the grouping dict, in the order they were first inserted.
RECURSIVE WindowsInOrder(_)
WindowsInOrder(txns) ==
    IF txns = <<>> THEN <<>>
    ELSE LET front == WindowsInOrder(SubSeq(txns, 1, Len(txns) - 1))
             w == WindowOf(txns[Len(txns)])
         IN  IF \E i \in 1..Len(front) : front[i] = w THEN front
             ELSE Append(front, w)

\* A variant that puts every transaction in every window's group.
InWindow_All(txns, w) == txns

InWindow(txns, w) == SelectSeq(txns, LAMBDA t : WindowOf(t) = w)

GroupBySettlementWindow(txns) ==
    [i \in 1..Len(WindowsInOrder(txns)) |->
        [window |-> WindowsInOrder(txns)[i],
         txns |-> InWindow(txns, WindowsInOrder(txns)[i])]]

Min(a, b) == IF a <= b THEN a ELSE b

\* A variant that makes one chunk of a window's whole group.
ChunksOf_Whole(txns, window, size) ==
    IF txns = <<>> THEN <<>> ELSE <<[window |-> window, txns |-> txns]>>

\* A variant whose chunks start at every position: range(0, len).
ChunksOf_Sliding(txns, window, size) ==
    [i \in 1..Len(txns) |->
        [window |-> window,
         txns |-> SubSeq(txns, i, Min(i + size - 1, Len(txns)))]]

\* transactions[i:i + max_batch_size] for i in range(0, len, max_batch_size)
RECURSIVE ChunksOf(_, _, _)
ChunksOf(txns, window, size) ==
    IF txns = <<>> THEN <<>>
    ELSE <<[window |-> window, txns |-> SubSeq(txns, 1, Min(size, Len(txns)))]>>
         \o ChunksOf(SubSeq(txns, Min(size, Len(txns)) + 1, Len(txns)), window, size)

\* The chunks of all windows, in the order optimize_batch solves them.
RECURSIVE AllChunks(_, _)
AllChunks(grouped, size) ==
    IF grouped = <<>> THEN <<>>
    ELSE ChunksOf(Head(grouped).txns, Head(grouped).window, size)
         \o AllChunks(Tail(grouped), size)

\* The identifiers the solution puts in sub-batch 1: those of the positions
\* in main, in the order of the chunk.
RECURSIVE MainBatchTxns(_, _)
MainBatchTxns(txns, main) ==
    IF txns = <<>> THEN <<>>
    ELSE LET front == MainBatchTxns(SubSeq(txns, 1, Len(txns) - 1), main)
         IN  IF Len(txns) \in main
             THEN Append(front, txns[Len(txns)].transaction_id)
             ELSE front

Range(q) == {q[i] : i \in DOMAIN q}

\* sum(fx cost + wire for txn in transactions if txn.transaction_id in ids)
RECURSIVE CostOver(_, _, _)
CostOver(txns, ids, wire) ==
    IF txns = <<>> THEN 0
    ELSE (IF Head(txns).transaction_id \in ids
          THEN CalculateFxCost(Head(txns).source_currency,
                               Head(txns).destination_currency,
                               Head(txns).amount) + wire
          ELSE 0)
         + CostOver(Tail(txns), ids, wire)

Max(a, b) == IF a >= b THEN a ELSE b

\* A variant that takes the percentage of the cost after.
SavingsPercentage_OfAfter(cost_before, cost_after) ==
    IF cost_before > 0
    THEN [num |-> cost_before - cost_after, den |-> cost_after]
    ELSE [num |-> 0, den |-> 1]

\* cost_savings_percentage is (num / den) * 100.
SavingsPercentage(cost_before, cost_after) ==
    IF cost_before > 0
    THEN [num |-> cost_before - cost_after, den |-> cost_before]
    ELSE [num |-> 0, den |-> 1]

\* _calculate_netting: per sorted pair of counterparty and 'self', the
\* amounts sent and received, in cents, of the transactions of the chunk
\* whose identifier is in the batch.
NettingPair(cp) == IF cp \in AfterSelf THEN <<"self", cp>> ELSE <<cp, "self">>

RECURSIVE NettingSum(_, _, _, _)
NettingSum(txns, ids, pair, sent) ==
    IF txns = <<>> THEN 0
    ELSE (IF /\ Head(txns).transaction_id \in ids
             /\ NettingPair(Head(txns).counterparty_id) = pair
             /\ (Head(txns).counterparty_id \in AfterSelf) = sent
          THEN Cents(Head(txns).amount) ELSE 0)
         + NettingSum(Tail(txns), ids, pair, sent)

CalculateNetting(txns, ids) ==
    [pair \in {NettingPair(txns[i].counterparty_id) :
                  i \in {j \in DOMAIN txns : txns[j].transaction_id \in ids}} |->
        [sent |-> NettingSum(txns, ids, pair, TRUE),
         received |-> NettingSum(txns, ids, pair, FALSE)]]

NoNetting == [pair \in {} |-> [sent |-> 0, received |-> 0]]

\* f"batch_{timestamp:.0f}_{uuid4().hex[:8]}"
BatchId(hex) == <<"batch", second, hex>>

\* _extract_solution: the result for sub-batch 1, or None when it is empty.
ExtractSolution(txns, main, window, hex) ==
    LET main_batch_txns == MainBatchTxns(txns, main)
        cost_before == CostOver(txns, Range(main_batch_txns), WireCost)
        cost_after == CostOver(txns, Range(main_batch_txns), 0) + DiscountedWireCost
    IN  IF main_batch_txns = <<>> THEN NoResult
        ELSE [batch_id |-> BatchId(hex),
              transactions |-> main_batch_txns,
              metrics |-> "pulp_cbc",
              cost_before |-> cost_before,
              cost_after |-> cost_after,
              cost_savings |-> Max(0, cost_before - cost_after),
              savings_pct |-> SavingsPercentage(cost_before, cost_after),
              window |-> window,
              netting |-> CalculateNetting(txns, Range(main_batch_txns))]

\* A variant of _simple_grouping that takes the whole chunk.
SimpleGrouping_Uncapped(txns, window, hex) ==
    [batch_id |-> BatchId(hex),
     transactions |-> [i \in 1..Len(txns) |-> txns[i].transaction_id],
     metrics |-> "simple_grouping",
     cost_before |-> 0,
     cost_after |-> 0,
     cost_savings |-> 0,
     savings_pct |-> [num |-> 0, den |-> 1],
     window |-> window,
     netting |-> NoNetting]

\* _simple_grouping
SimpleGrouping(txns, window, hex) ==
    [batch_id |-> BatchId(hex),
     transactions |-> [i \in 1..Min(SimpleGroupingCap, Len(txns)) |->
                          txns[i].transaction_id],
     metrics |-> "simple_grouping",
     cost_before |-> 0,
     cost_after |-> 0,
     cost_savings |-> 0,
     savings_pct |-> [num |-> 0, den |-> 1],
     window |-> window,
     netting |-> NoNetting]

\* if liquidity_constraints:
Constrained(constraints) ==
    constraints # NoConstraints /\ DOMAIN constraints # {}

RECURSIVE Outflow(_, _)
Outflow(txns, currency) ==
    IF txns = <<>> THEN 0
    ELSE (IF Head(txns).source_currency = currency
          THEN Cents(Head(txns).amount) ELSE 0)
         + Outflow(Tail(txns), currency)

\* Every transaction is in exactly one of the three sub-batches, so the
\* liquidity constraint of a currency bounds the chunk's whole outflow in it.
Feasible(txns, constraints) ==
    Constrained(constraints) =>
        \A c \in DOMAIN constraints : Outflow(txns, c) <= Cents(constraints[c])

\* A service is constructed with its maximum batch size.
NewBatchingService(size) ==
    /\ bpc = "new"
    /\ max_batch_size' = size
    /\ bpc' = "idle"
    /\ UNCHANGED <<transactions, liquidity_constraints, chunks, results, solved,
                   second>>
    /\ UNCHANGED <<intakeVars, apiVars>>

\* A variant without the early return for an empty list.
AfterEntry_NoEarlyReturn(txns) == "running"

\* if not transactions: return []
AfterEntry(txns) == IF txns = <<>> THEN "returned" ELSE "running"

\* optimize_batch up to the loop over the chunks: an empty list returns an
\* empty list at once.
OptimizeBatch(txns, constraints) ==
    /\ bpc = "idle"
    /\ transactions' = txns
    /\ liquidity_constraints' = constraints
    /\ results' = <<>>
    /\ solved' = <<>>
    /\ chunks' = AllChunks(GroupBySettlementWindow(txns), max_batch_size)
    /\ bpc' = AfterEntry(txns)
    /\ UNCHANGED <<max_batch_size, second>>
    /\ UNCHANGED <<intakeVars, apiVars>>

\* The loop's next chunk is done and the loop goes on, or the call returns.
ChunkDone(outcome, main, result) ==
    /\ solved' = Append(solved, [chunk |-> Head(chunks), outcome |-> outcome,
                                 main |-> main, result |-> result])
    /\ results' = IF result = NoResult THEN results ELSE Append(results, result)
    /\ chunks' = Tail(chunks)
    /\ bpc' = IF Tail(chunks) = <<>> THEN "returned" ELSE "running"

(***************************************************************************)
(* _solve_batch_optimization for the next chunk.  The objective gives a    *)
(* transaction the same cost in each of the three sub-batches, so every    *)
(* assignment is optimal and the solver may return any: main is the set of *)
(* positions whose variable for sub-batch 1 is above 0.5.  The solver      *)
(* raises; or it solves the problem; or, the problem infeasible, it        *)
(* returns without raising and leaves the variables with some values, or   *)
(* with None, which _extract_solution cannot compare with 0.5.             *)
(***************************************************************************)
SolveBatchOptimization ==
    LET chunk == Head(chunks) IN
    /\ bpc = "running"
    /\ \/ \E hex \in UuidHex :
             ChunkDone("raised", {}, SimpleGrouping(chunk.txns, chunk.window, hex))
       \/ /\ Feasible(chunk.txns, liquidity_constraints)
          /\ \E main \in SUBSET (1..Len(chunk.txns)) : \E hex \in UuidHex :
                ChunkDone("optimal", main,
                          ExtractSolution(chunk.txns, main, chunk.window, hex))
       \/ /\ ~Feasible(chunk.txns, liquidity_constraints)
          /\ \E main \in SUBSET (1..Len(chunk.txns)) : \E hex \in UuidHex :
                ChunkDone("infeasible", main,
                          ExtractSolution(chunk.txns, main, chunk.window, hex))
       \/ /\ ~Feasible(chunk.txns, liquidity_constraints)
          /\ solved' = Append(solved, [chunk |-> chunk, outcome |-> "infeasible",
                                       main |-> {}, result |-> NoResult])
          /\ bpc' = "raised"
          /\ UNCHANGED <<chunks, results>>
    /\ UNCHANGED <<max_batch_size, transactions, liquidity_constraints, second>>
    /\ UNCHANGED <<intakeVars, apiVars>>

\* The caller has the list of results, or the exception; the service is free
\* for the next call.
ReturnBatches ==
    /\ bpc \in {"returned", "raised"}
    /\ bpc' = "idle"
    /\ transactions' = <<>>
    /\ liquidity_constraints' = NoConstraints
    /\ chunks' = <<>>
    /\ results' = <<>>
    /\ solved' = <<>>
    /\ UNCHANGED <<max_batch_size, second>>
    /\ UNCHANGED <<intakeVars, apiVars>>

\* The seconds a behaviour spans.
Seconds == {0, 1}

\* A second passes on the clock batch identifiers are stamped from.  The
\* results of one call are stamped within one second; calls are made in the
\* same second or in successive ones.
BatchTick ==
    /\ bpc # "running"
    /\ second + 1 \in Seconds
    /\ second' = second + 1
    /\ UNCHANGED <<bpc, max_batch_size, transactions, liquidity_constraints,
                   chunks, results, solved>>
    /\ UNCHANGED <<intakeVars, apiVars>>

BatchNext ==
    \/ \E size \in 1..MaxBatchSize : NewBatchingService(size)
    \/ \E txns \in BatchInputs : \E constraints \in LiquidityChoices :
          OptimizeBatch(txns, constraints)
    \/ SolveBatchOptimization
    \/ ReturnBatches
    \/ BatchTick

(***************************************************************************)
(* The HTTP endpoint GET /api/v1/transactions/{transaction_id}.  The       *)
(* service is initialized before the application serves a request.         *)
(***************************************************************************)
NoReply == [none |-> "reply"]

ApiInit == reply = NoReply

\* HTTPException(status_code, detail); left to the framework it becomes the
\* reply with that status code and detail.
HTTPException(status_code, detail) ==
    [status_code |-> status_code, detail |-> detail]

\* get_transaction_status: a placeholder that returns None for every
\* transaction identifier.
GetTransactionStatus(transaction_id) == "None"

\* The body of the handler's try block: the status, or the HTTPException
\* raised when there is none.
TryGetTransaction(transaction_id) ==
    IF GetTransactionStatus(transaction_id) = "None"
    THEN [raised |-> TRUE,
          value |-> HTTPException(404, "Transaction not found")]
    ELSE [raised |-> FALSE,
          value |-> [status_code |-> 200,
                     detail |-> GetTransactionStatus(transaction_id)]]

\* except Exception: HTTPException is an Exception, so whatever the try
\* block raises, its own HTTPException included, is replaced.
GetTransaction(transaction_id) ==
    /\ reply' = [transaction_id |-> transaction_id,
                 answer |-> IF TryGetTransaction(transaction_id).raised
                            THEN HTTPException(500, "Internal server error")
                            ELSE TryGetTransaction(transaction_id).value]
    /\ UNCHANGED <<intakeVars, batchVars>>

ApiNext ==
    \/ IntakeNext
    \/ \E transaction_id \in TxnIds : GetTransaction(transaction_id)

vars == <<intakeVars, batchVars, apiVars>>

Init == IntakeInit /\ BatchInit /\ ApiInit

Next == IntakeNext

\* The intake pipeline.
Spec == Init /\ [][Next]_vars

\* The batch optimization engine.
BatchSpec == Init /\ [][BatchNext]_vars

\* The intake pipeline with the endpoint that reads a transaction.
ApiSpec == Init /\ [][ApiNext]_vars

(***************************************************************************)
(*                    Properties of the intake pipeline                    *)
(***************************************************************************)

\* The call the last step completed ran after validation.
Ended == last # NoCall

\* The Redis key of a request's idempotency key.
KeyOf(r) == GenerateDedupKey(r.idempotency_key)

\* The call just completed immediately follows a call that returned
\* (resp, false) for the same idempotency key.
FollowsAccepted ==
    /\ Ended
    /\ last.pred # NoCall
    /\ last.pred.ret.kind = "ok"
    /\ ~last.pred.ret.dup
    /\ last.pred.idem = last.req.idempotency_key

\* What a JSON round trip makes of a response: a metadata value JSON cannot
\* encode comes back as a string, everything else comes back as it was.
RoundTrip(r) ==
    [r EXCEPT !.metadata = IF @ = "nonnative" THEN "stringified" ELSE @]

SecondLookup(w) ==
    /\ pc[w] = "check"
    /\ pred[w] # NoCall
    /\ pred[w].ret.kind = "ok"
    /\ ~pred[w].ret.dup
    /\ pred[w].idem = req[w].idempotency_key

\* The store still holds, unexpired, the entry that first call wrote.
EntryIntact(w) ==
    /\ KeyOf(req[w]) \in DOMAIN store
    /\ store[KeyOf(req[w])].val = Serialize(pred[w].ret.resp)
    /\ now < store[KeyOf(req[w])].at + store[KeyOf(req[w])].ttl

Rejectable(r) ==
    \/ DecLE(r.amount, Zero)
    \/ DecGT(r.amount, Dec(999999999, 99))
    \/ r.source_account = r.destination_account
    \/ \A i \in 1..Len(r.counterparty_id) : r.counterparty_id[i] = " "

\* C2: a request with a non-positive amount, an amount above 999,999,999.99,
\* equal source and destination accounts, or an empty or whitespace-only
\* counterparty is rejected with a validation error; no worker ever runs a
\* lookup, a write or a publish for it, and the step that rejects it leaves
\* the store and the log as they were.
C2_Rejected ==
    /\ [](/\ (Ended /\ Rejectable(last.req)) =>
                 /\ last.ret.kind = "validation_error"
                 /\ last.ops = NoOps
          /\ \A w \in Workers : InFlight(w) => ~Rejectable(req[w]))
    /\ [][(last' # NoCall /\ Rejectable(last'.req)) =>
              UNCHANGED <<store, log, ops>>]_vars

C2_Witness ==
    /\ Ended
    /\ last.req.counterparty_id = <<" ", " ">>
    /\ last.ret.kind = "validation_error"
    /\ calls = 2

\* C3: a call whose publish failed or timed out ends with the error, not
\* with a (response, isDuplicate) pair, and it sent once only.
C3_PublishFailureRaises ==
    (Ended /\ last.pub \in {"failed", "timeout"}) =>
        /\ last.ret.kind = "publish_error"
        /\ last.ret.resp = NoResp
        /\ last.ops.sends = 1

C3_Witness ==
    /\ Ended
    /\ last.pub = "timeout"
    /\ last.ret.kind = "publish_error"
    /\ last.ops.sends = 1

\* C4: a call whose write to the store failed still publishes, once, and when
\* the publish is acknowledged it returns (response, false); the failed write
\* is never what the caller gets.
C4_StoreFailureSwallowed ==
    /\ (Ended /\ last.wrote = "failed") =>
          /\ last.ops.sends = 1
          /\ last.ret.kind \in {"ok", "publish_error"}
          /\ last.pub = "ack" => last.ret = Returned(last.made, FALSE)
    /\ \A w \in Workers : wrote[w] = "failed" => pc[w] = "publish"

C4_Witness ==
    /\ Ended
    /\ last.wrote = "failed"
    /\ last.pub = "ack"
    /\ last.ret = Returned(last.made, FALSE)
    /\ \E p \in Partitions : \E i \in 1..Len(log[p]) :
           log[p][i].value = Serialize(last.made)

\* C5, as the claim states it: a call whose duplicate lookup met an
\* unavailable store goes on as a new transaction: it publishes, and the
\* caller gets a response that is no duplicate, or the publish's error.
C5_LookupFailureSwallowed ==
    (Ended /\ last.seen = "error") =>
        /\ last.ret.kind \in {"ok", "publish_error"}
        /\ last.ret.kind = "ok" => ~last.ret.dup
        /\ last.ops.sends = 1

\* C6: a call that found the entry of its key expired is treated as new: it
\* constructs a fresh response, writes it to the store, publishes it, and
\* returns it with isDuplicate = false when the publish is acknowledged.  And
\* no call is answered as a duplicate from an entry whose TTL has elapsed.
C6_ExpiredIsNew ==
    /\ (Ended /\ last.seen = "expired") =>
          /\ last.made # NoResp
          /\ last.ops.writes = 1
          /\ last.ops.sends = 1
          /\ last.ret.kind \in {"ok", "publish_error"}
          /\ last.ret.kind = "ok" => last.ret = Returned(last.made, FALSE)
          /\ last.pub = "ack" => last.ret.kind = "ok"
    /\ (Ended /\ last.ret.kind = "ok" /\ last.ret.dup) =>
          /\ KeyOf(last.req) \in DOMAIN store
          /\ now < store[KeyOf(last.req)].at + DedupTtl

C6_Witness ==
    /\ Ended
    /\ last.seen = "expired"
    /\ last.wrote = "ok"
    /\ last.ret = Returned(last.made, FALSE)
    /\ store[KeyOf(last.req)].val = Serialize(last.made)
    /\ store[KeyOf(last.req)].at = now
    /\ accepted[last.req.idempotency_key] = 2

\* C7: a call that found under its key a value that does not deserialize
\* goes on as after a miss: it publishes and, the publish acknowledged,
\* returns its new response with isDuplicate = false; and its write puts the
\* new response under the key, whatever value is there.
C7_CorruptIsMiss ==
    /\ []((Ended /\ last.seen = "corrupt") =>
            /\ last.made # NoResp
            /\ last.ops.writes = 1
            /\ last.ops.sends = 1
            /\ last.ret.kind \in {"ok", "publish_error"}
            /\ last.ret.kind = "ok" => last.ret = Returned(last.made, FALSE)
            /\ last.pub = "ack" => last.ret.kind = "ok")
    /\ [][\A w \in Workers :
            (pc[w] = "store" /\ seen[w] = "corrupt" /\ wrote'[w] = "ok") =>
                store'[KeyOf(req[w])] =
                      [val |-> Serialize(resp[w]), at |-> now, ttl |-> DedupTtl]]_vars

C7_Witness ==
    /\ Ended
    /\ last.seen = "corrupt"
    /\ last.wrote = "ok"
    /\ last.ret = Returned(last.made, FALSE)
    /\ store[KeyOf(last.req)].val = Serialize(last.made)

\* The records of the topic's partitions, by partition and offset.
Offsets == {po \in Partitions \X (1..MaxCalls) : po[2] <= Len(log[po[1]])}
Record(po) == log[po[1]][po[2]]

\* The publish of a call put its record in a partition.
Landed == {"ack", "timeout"}

PublishedFor(k) == {po \in Offsets : Record(po).value.idempotency_key = k}

\* C9: two submits of one idempotency key that run concurrently can both
\* return isDuplicate = false, and then the transaction has been published
\* twice: there are never fewer records published for a key than calls that
\* returned isDuplicate = false for it.
C9_AcceptedArePublished ==
    \A k \in IdemKeys : accepted[k] <= Cardinality(PublishedFor(k))

C9_Witness ==
    /\ faults = 0
    /\ now = 0
    /\ \E k \in IdemKeys :
          /\ accepted[k] = 2
          /\ Cardinality(PublishedFor(k)) = 2
          /\ \A po \in PublishedFor(k) : \A qo \in PublishedFor(k) :
                Record(po).value.transaction_id = Record(qo).value.transaction_id

(***************************************************************************)
(*                 Properties of the batch optimization engine             *)
(***************************************************************************)

\* A call of optimize_batch has returned for a non-empty list of one
\* settlement window, no longer than the maximum batch size, without
\* liquidity constraints, and the solver solved its one chunk.
OneChunkSolved ==
    /\ bpc = "returned"
    /\ transactions # <<>>
    /\ \A i \in DOMAIN transactions : \A j \in DOMAIN transactions :
           WindowOf(transactions[i]) = WindowOf(transactions[j])
    /\ Len(transactions) <= max_batch_size
    /\ liquidity_constraints \in {NoConstraints, EmptyConstraints}
    /\ \A i \in DOMAIN solved : solved[i].outcome = "optimal"

InputIds == {transactions[i].transaction_id : i \in DOMAIN transactions}

\* A result is non-empty, of input identifiers, and costs no more after
\* than before.
SoundResult(r) ==
    /\ r.transactions # <<>>
    /\ Range(r.transactions) \subseteq InputIds
    /\ r.cost_after <= r.cost_before

\* C10, as the claim states it: such a call returns exactly one result, and
\* that result is non-empty, of input identifiers, with cost-after <=
\* cost-before.
C10_Original ==
    OneChunkSolved => (Len(results) = 1 /\ SoundResult(results[1]))

\* C10: such a call returns one result when the solver put a transaction in
\* sub-batch 1 and none when it put none there; a result returned is
\* non-empty, of input identifiers, with cost-after <= cost-before.
C10_Amended ==
    OneChunkSolved =>
        /\ Len(solved) = 1
        /\ Len(results) = (IF solved[1].main = {} THEN 0 ELSE 1)
        /\ \A i \in DOMAIN results : SoundResult(results[i])

C10_Witness ==
    /\ OneChunkSolved
    /\ Len(transactions) = 2
    /\ Len(results) = 1
    /\ results[1].transactions = <<"A", "B">>
    /\ results[1].cost_after < results[1].cost_before

\* The transaction of the pool that has an identifier.
TxnOf(id) == CHOOSE t \in BatchPool : t.transaction_id = id

\* The sum, over the members of a result, of the FX cost plus a wire cost.
RECURSIVE MemberCost(_, _)
MemberCost(ids, wire) ==
    IF ids = <<>> THEN 0
    ELSE CalculateFxCost(TxnOf(Head(ids)).source_currency,
                         TxnOf(Head(ids)).destination_currency,
                         TxnOf(Head(ids)).amount) + wire
         + MemberCost(Tail(ids), wire)

OptimizerResult(r) == r.metrics = "pulp_cbc"

\* C11, as the claim states it: in every result of the optimizer path
\* cost-before is the sum over the members of FX cost plus the wire cost, and
\* cost-after is the sum over the members of FX cost plus the discounted wire
\* cost, one discounted wire cost for each member.
C11_CostPerMember ==
    \A i \in DOMAIN results :
        OptimizerResult(results[i]) =>
            /\ results[i].cost_before =
                   MemberCost(results[i].transactions, WireCost)
            /\ results[i].cost_after =
                   MemberCost(results[i].transactions, DiscountedWireCost)

FallbackResult(r) == r # NoResult /\ r.metrics = "simple_grouping"

\* C12, as the claim states it: whenever the solver fails for a chunk, by
\* raising or by finding the problem infeasible, optimize does not raise and
\* the chunk's result is the fallback result.
C12_FailureFallsBack ==
    \A i \in DOMAIN solved :
        solved[i].outcome \in {"raised", "infeasible"} =>
            /\ bpc # "raised"
            /\ FallbackResult(solved[i].result)

\* The identifiers of the first n transactions of a list, in its order.
FirstIds(txns, n) == [i \in 1..n |-> txns[i].transaction_id]

RaisedAt(i) == solved[i].outcome = "raised"

\* C13: the result of a chunk of N transactions whose solver raised is the
\* fallback result: its members are the identifiers of the first
\* min(cap, N) transactions of the chunk in order, its costs, savings and
\* savings percentage are 0, its netting detail is empty, its window is the
\* chunk's, its metrics tag is simple grouping; and it is among the results
\* of the call, which goes on.
C13_FallbackContents ==
    \A i \in DOMAIN solved :
        RaisedAt(i) =>
            LET r == solved[i].result
                txns == solved[i].chunk.txns
                n == IF Len(txns) < SimpleGroupingCap THEN Len(txns)
                     ELSE SimpleGroupingCap
            IN  /\ r # NoResult
                /\ r.transactions = FirstIds(txns, n)
                /\ r.cost_before = 0
                /\ r.cost_after = 0
                /\ r.cost_savings = 0
                /\ r.savings_pct.num = 0
                /\ DOMAIN r.netting = {}
                /\ r.window = solved[i].chunk.window
                /\ r.metrics = "simple_grouping"
                /\ \E j \in DOMAIN results : results[j] = r
                /\ bpc \in {"running", "returned"} \/ i < Len(solved)

C13_Witness ==
    \E i \in DOMAIN solved :
        /\ RaisedAt(i)
        /\ Len(solved[i].chunk.txns) > SimpleGroupingCap
        /\ solved[i].result.transactions =
               FirstIds(solved[i].chunk.txns, SimpleGroupingCap)
        /\ solved[i].result.window = "t1"
        /\ bpc = "returned"

\* C14, as the claim states it: when liquidity constraints are supplied, the
\* chunk of every optimizer-path result keeps each limit: the amounts of its
\* transactions with the constrained source currency sum to no more than
\* the limit.
C14_LimitsKept ==
    \A i \in DOMAIN solved :
        (/\ Constrained(liquidity_constraints)
         /\ solved[i].result # NoResult
         /\ OptimizerResult(solved[i].result)) =>
            \A c \in DOMAIN liquidity_constraints :
                Outflow(solved[i].chunk.txns, c)
                    <= Cents(liquidity_constraints[c])

\* C15: all members of a result have the settlement window recorded on the
\* result, the window a transaction without one defaults to being rtgs; so
\* do all transactions of every chunk solved.
C15_WindowPurity ==
    /\ \A i \in DOMAIN results : \A k \in DOMAIN results[i].transactions :
           WindowOf(TxnOf(results[i].transactions[k])) = results[i].window
    /\ \A i \in DOMAIN solved : \A k \in DOMAIN solved[i].chunk.txns :
           WindowOf(solved[i].chunk.txns[k]) = solved[i].chunk.window
    /\ \A i \in DOMAIN chunks : \A k \in DOMAIN chunks[i].txns :
           WindowOf(chunks[i].txns[k]) = chunks[i].window

C15_Witness ==
    /\ bpc = "returned"
    /\ transactions = <<TxnOf("A"), TxnOf("C"), TxnOf("B")>>
    /\ Len(results) = 2
    /\ results[1].window = "rtgs"
    /\ results[1].transactions = <<"A", "B">>
    /\ results[2].window = "t1"
    /\ results[2].transactions = <<"C">>

Windows == {"rtgs", "t0", "t1", "t2"}

\* The transactions of the call's input, and its results, of a window.
InputOf(w) == {i \in DOMAIN transactions : WindowOf(transactions[i]) = w}
ResultsOf(w) == {i \in DOMAIN results : results[i].window = w}

\* C16: every result has at most max_batch_size members; there are never
\* more results than chunks solved; and of a window with n transactions a
\* call returns at most ceil(n / max_batch_size) results.
C16_SizeAndCount ==
    /\ \A i \in DOMAIN results :
           Len(results[i].transactions) <= max_batch_size
    /\ Len(results) <= Len(solved)
    /\ bpc \in {"running", "returned"} =>
           \A w \in Windows :
               Cardinality(ResultsOf(w)) * max_batch_size
                   <= Cardinality(InputOf(w)) + max_batch_size - 1

C16_Witness ==
    /\ bpc = "returned"
    /\ max_batch_size = 2
    /\ Cardinality(InputOf("rtgs")) = 3
    /\ Cardinality(ResultsOf("rtgs")) = 2
    /\ \E i \in DOMAIN results : Len(results[i].transactions) = 2
    /\ Len(solved) = 2

\* C17: in every result the savings are max(0, cost-before - cost-after),
\* never negative; the savings percentage is savings / cost-before x 100
\* when cost-before > 0 (the result holds the ratio num / den) and 0 when
\* cost-before = 0.
C17_Savings ==
    \A i \in DOMAIN results :
        LET r == results[i] IN
        /\ r.cost_savings = (IF r.cost_before - r.cost_after > 0
                             THEN r.cost_before - r.cost_after ELSE 0)
        /\ r.cost_savings >= 0
        /\ r.cost_before > 0 =>
               (r.savings_pct.num = r.cost_savings /\ r.savings_pct.den = r.cost_before)
        /\ r.cost_before = 0 => r.savings_pct.num = 0

C17_Witness ==
    /\ Len(results) = 2
    /\ results[1].cost_before = 0
    /\ results[1].savings_pct.num = 0
    /\ results[2].cost_before > 0
    /\ results[2].cost_savings = results[2].cost_before - results[2].cost_after
    /\ results[2].cost_savings > 0
    /\ results[2].savings_pct =
           [num |-> results[2].cost_savings, den |-> results[2].cost_before]

\* C18: a call of optimize with an empty list returns an empty list of
\* results: it never runs the loop over chunks, never raises, and no chunk
\* is handed to the solver.
C18_EmptyInput ==
    transactions = <<>> =>
        /\ bpc \in {"new", "idle", "returned"}
        /\ results = <<>>
        /\ solved = <<>>
        /\ chunks = <<>>

C18_Witness ==
    /\ bpc = "returned"
    /\ transactions = <<>>
    /\ Constrained(liquidity_constraints)
    /\ results = <<>>
    /\ solved = <<>>

\* C19, as the claim states it: any two results of a call of optimize have
\* different batch identifiers.
C19_UniqueBatchIds ==
    \A i \in DOMAIN results : \A j \in DOMAIN results :
        i # j => results[i].batch_id # results[j].batch_id

Published(r) == \E po \in Offsets : Record(po).value = Serialize(r)

\* C21, as the claim states it: a response that submit returns to its
\* caller, with isDuplicate true or false, has been published to the topic.
C21_ReturnedArePublished ==
    (Ended /\ last.ret.kind = "ok") => Published(last.ret.resp)

\* C22, as the claim states it, for the steps of the service itself: while
\* the entry of a dedup key is live, no step in which no operation fails and
\* no foreign writer acts changes the value stored under the key.
C22_LiveValueNeverChanges ==
    [][\A k \in DOMAIN store :
          (Live(k) /\ faults' = faults) => store'[k].val = store[k].val]_vars

\* C23: the step that ends a call with isDuplicate = true leaves the store,
\* with every entry's value and time to live, and the topic as they were,
\* and the whole call has made one get, no setex and no send.
C23_DuplicateChangesNothing ==
    [][(last' # NoCall /\ last'.ret.kind = "ok" /\ last'.ret.dup) =>
          /\ store' = store
          /\ log' = log
          /\ last'.ops = [reads |-> 1, writes |-> 0, sends |-> 0]
          /\ last'.wrote = "none"
          /\ last'.pub = "none"]_vars

\* A call has returned isDuplicate = true for a key whose entry is live and
\* whose first submit has been published.
C23_Witness ==
    /\ Ended
    /\ last.ret.kind = "ok"
    /\ last.ret.dup
    /\ Live(KeyOf(last.req))
    /\ store[KeyOf(last.req)].ttl = DedupTtl
    /\ Cardinality(PublishedFor(last.req.idempotency_key)) = 1

\* The transactions of the call have pairwise distinct identifiers.
DistinctIds ==
    \A i \in DOMAIN transactions : \A j \in DOMAIN transactions :
        i # j => transactions[i].transaction_id # transactions[j].transaction_id

\* C24: when the input's identifiers are pairwise distinct, no identifier
\* is twice among the members of one result, and no identifier is among the
\* members of two results of the call.
C24_NoIdTwice ==
    DistinctIds =>
        /\ \A i \in DOMAIN results :
              \A a \in DOMAIN results[i].transactions :
                 \A b \in DOMAIN results[i].transactions :
                    a # b => results[i].transactions[a] # results[i].transactions[b]
        /\ \A i \in DOMAIN results : \A j \in DOMAIN results :
              i # j => Range(results[i].transactions)
                          \cap Range(results[j].transactions) = {}

\* A call on three distinct transactions has returned two results, one of
\* two members and one of one.
C24_Witness ==
    /\ bpc = "returned"
    /\ DistinctIds
    /\ Len(transactions) = 3
    /\ Len(results) = 2
    /\ Len(results[1].transactions) = 2
    /\ Len(results[2].transactions) = 1

\* C25, as the claim states it: a GET of a transaction that is not found is
\* answered with status 404, Transaction not found.
C25_NotFoundIs404 ==
    (reply # NoReply /\ GetTransactionStatus(reply.transaction_id) = "None") =>
        reply.answer = HTTPException(404, "Transaction not found")

=============================================================================
